---- MODULE Spec2Model ----
(***************************************************************************)
(* Graph colouring with m colours: the vertex search of main.py,           *)
(* verices.py and conbinado.py, the edge search of aristas.py and          *)
(* conbinado.py, and the timing loop measure_execution_time, driven by the *)
(* update_graph handler.                                                   *)
(*                                                                         *)
(* Vertices and edges keep the source's 0-based indices: a colors array is *)
(* a function over 0..n-1, a graph is [n, es] with es a function from the  *)
(* edge index to <<source, target>>.                                       *)
(***************************************************************************)
EXTENDS Integers, Sequences, FiniteSets, TLC

\* ------------------------------------------------------------- bounds
\* Every 0/1 matrix (directed arcs, self-loops) up to MaxN x MaxN.
MaxN == 2
\* Every symmetric 0/1 matrix with a zero diagonal up to MaxSimpleN x MaxSimpleN.
MaxSimpleN == 4
\* num_colors ranges over -1..MaxColors (and the Vizing value in edge mode).
MaxColors == 4
\* Iterations of the timing loop that are modelled (the source runs 1000).
Trials == 2
\* Every permutation is tried as edge_order on graphs of at most this many edges.
MaxPermEdges == 3

\* The "unassigned" sentinel of the colors arrays.
Unassigned == -1

\* len(palette) in aristas.py and conbinado.py: ten labels.
PaletteLen == 10

\* num_colors of main.py and verices.py.
MainNumColors == 4

\* The matrix editor is modelled on matrices up to MaxEditN x MaxEditN.
MaxEditN == 2

VARIABLES
    adj_matrix,    \* the global adjacency matrix: [0..n-1 -> [0..n-1 -> {0,1}]]
    pc,            \* position in update_graph: "idle", "bench", "search", "done"
    mode,          \* "vertex" (verices.py) or "edge" (aristas.py)
    directed,      \* update_graph's argument
    g,             \* the local graph g of update_graph
    num_colors,    \* the colour budget handed to the searches
    edge_order,    \* edge mode: the order handed to the real edge_coloring
    colors,        \* update_graph's colors array (the real search's)
    result,        \* "none", or the real search's return value TRUE / FALSE
    bench_colors,  \* measure_execution_time's local colors array
    bench_log,     \* one record per finished trial: array before, return value, array after
    entry_matrix,  \* the texts of the Entry widgets of the matrix editor
    error,         \* "none", or the messagebox.showerror of the last handler
    frames         \* the active calls of a search run step by step, innermost last

vars == <<adj_matrix, pc, mode, directed, g, num_colors, edge_order, colors,
          result, bench_colors, bench_log, entry_matrix, error, frames>>

\* ------------------------------------------------------------- matrices
\* A sequence (1-based) as a 0-based array.
ZeroBased(s) == [k \in 0..Len(s)-1 |-> s[k + 1]]

Dim(m) == Cardinality(DOMAIN m)

AllMatrices(n) == [0..n-1 -> [0..n-1 -> {0, 1}]]

Pairs(n) == {p \in (0..n-1) \X (0..n-1) : p[1] < p[2]}

\* The symmetric matrix with a zero diagonal whose 1-cells are the pairs of S.
SimpleMatrix(n, S) ==
    [i \in 0..n-1 |-> [j \in 0..n-1 |->
        IF <<i, j>> \in S \/ <<j, i>> \in S THEN 1 ELSE 0]]

SimpleMatrices(n) == {SimpleMatrix(n, S) : S \in SUBSET Pairs(n)}

IsSimple(m) ==
    \A i \in DOMAIN m : m[i][i] = 0 /\ \A j \in DOMAIN m : m[i][j] = m[j][i]

\* The matrix every source file starts with (main.py, lines 14-21).
DefaultMatrix ==
    ZeroBased(<< ZeroBased(<<0, 1, 1, 0, 0, 1>>),
                 ZeroBased(<<1, 0, 1, 1, 0, 0>>),
                 ZeroBased(<<1, 1, 0, 1, 0, 0>>),
                 ZeroBased(<<0, 1, 1, 0, 1, 1>>),
                 ZeroBased(<<0, 0, 0, 1, 0, 1>>),
                 ZeroBased(<<1, 0, 0, 1, 1, 0>>) >>)

\* The complete graph on 4 vertices and the 5-cycle 0-1-2-3-4-0.
K4 == SimpleMatrix(4, Pairs(4))

Cycle5 == SimpleMatrix(5, {<<0, 1>>, <<1, 2>>, <<2, 3>>, <<3, 4>>, <<0, 4>>})

\* The path 2-1-4-3-0 and the complete graph on 5 vertices less the edge 0-1.
Path5 == SimpleMatrix(5, {<<1, 2>>, <<1, 4>>, <<3, 4>>, <<0, 3>>})

K5MinusEdge == SimpleMatrix(5, Pairs(5) \ {<<0, 1>>})

\* A 5 x 5 matrix with self-loops whose directed graph has a vertex of
\* degree 10 (vertex 2: five arcs out, five arcs in).
DenseArcs5 ==
    ZeroBased(<< ZeroBased(<<0, 0, 1, 1, 0>>),
                 ZeroBased(<<0, 0, 1, 1, 0>>),
                 ZeroBased(<<1, 1, 1, 1, 1>>),
                 ZeroBased(<<1, 1, 1, 1, 1>>),
                 ZeroBased(<<0, 1, 1, 1, 0>>) >>)

\* Matrices beyond the exhaustive sizes: the program's initial matrix and
\* four 5-vertex graphs.
Scenarios == {DefaultMatrix, Cycle5, Path5, K5MinusEdge, DenseArcs5}

Matrices ==
    UNION {AllMatrices(n) : n \in 1..MaxN}
    \cup UNION {SimpleMatrices(n) : n \in 1..MaxSimpleN}
    \cup Scenarios

\* str(adj_matrix[i][j]) for a cell holding 0 or 1.
str(value) == IF value = 0 THEN "0" ELSE "1"

\* The Entry widgets as the GUI creates them: entry.insert(0, str(adj_matrix[i][j])).
EntriesOf(m) == [i \in DOMAIN m |-> [j \in DOMAIN m |-> str(m[i][j])]]

\* ------------------------------------------------------------- igraph
NumEdges(graph) == Cardinality(DOMAIN graph.es)

source(graph, e) == graph.es[e][1]
target(graph, e) == graph.es[e][2]

\* Graph.Adjacency(adj_matrix): a directed graph with one arc i -> j per 1-cell,
\* in row-major order; a 1 on the diagonal is a self-loop.
RECURSIVE AdjacencyEdges(_, _)
AdjacencyEdges(m, k) ==
    LET n == Dim(m)
        i == k \div n
        j == k % n
    IN  IF k >= n * n THEN <<>>
        ELSE (IF m[i][j] = 1 THEN <<(<<i, j>>)>> ELSE <<>>) \o AdjacencyEdges(m, k + 1)

Adjacency(m) == [n |-> Dim(m), es |-> ZeroBased(AdjacencyEdges(m, 0))]

HasArc(graph, i, j) == \E e \in DOMAIN graph.es : graph.es[e] = <<i, j>>

\* g.to_undirected() (mode "collapse"): the arcs i -> j and j -> i become one
\* edge {i, j}; edges are numbered by larger endpoint, then smaller endpoint.
RECURSIVE CollapsedEdges(_, _)
CollapsedEdges(graph, k) ==
    LET n == graph.n
        i == k \div n
        j == k % n
    IN  IF k >= n * n THEN <<>>
        ELSE (IF j <= i /\ (HasArc(graph, i, j) \/ HasArc(graph, j, i))
              THEN <<(<<j, i>>)>> ELSE <<>>) \o CollapsedEdges(graph, k + 1)

to_undirected(graph) == [n |-> graph.n, es |-> ZeroBased(CollapsedEdges(graph, 0))]

\* update_graph's first lines: the graph of the matrix, made undirected on request.
BuildGraph(m, dir) == IF dir THEN Adjacency(m) ELSE to_undirected(Adjacency(m))

\* neighbors with igraph's mode "out": only the heads of the arcs leaving node.
neighbors_out(graph, node) ==
    {v \in 0..graph.n-1 : \E e \in DOMAIN graph.es : graph.es[e] = <<node, v>>}

\* graph.neighbors(node): the vertices joined to node by an edge in either
\* direction (igraph's default mode "all"); node itself when it has a self-loop.
neighbors(graph, node) ==
    {v \in 0..graph.n-1 :
        \E e \in DOMAIN graph.es : graph.es[e] = <<node, v>> \/ graph.es[e] = <<v, node>>}

\* graph.degree(v): the edge ends at v, a self-loop counting twice.
degree(graph, v) ==
    Cardinality({e \in DOMAIN graph.es : source(graph, e) = v})
    + Cardinality({e \in DOMAIN graph.es : target(graph, e) = v})

Max(S) == CHOOSE x \in S : \A y \in S : y <= x

\* [-1] * len(...)
AllUnassigned(k) == [i \in 0..k-1 |-> Unassigned]

\* A range that runs one id too far.
range_inclusive(n) == 0..n

\* range(num_colors)
range(n) == 0..n-1

\* ------------------------------------------------------------- vertex search
\* is_safe asked after colors[node] = color has been written: a vertex with a
\* self-loop, being its own neighbour, then holds the color it is refused.
is_safe_after_write(node, color, colors_, graph) ==
    \A neighbor \in neighbors(graph, node) :
        [colors_ EXCEPT ![node] = color][neighbor] # color

\* is_safe / is_safe_vertex: no neighbour of node holds color.
is_safe(node, color, colors_, graph) ==
    \A neighbor \in neighbors(graph, node) : colors_[neighbor] # color

\* graph_coloring / vertex_coloring: the recursive backtracking search. The
\* Python function mutates colors and returns a bool; here it returns both.
\* try_colors is the "for color in range(num_colors)" loop from color onwards.
RECURSIVE graph_coloring(_, _, _, _), try_colors(_, _, _, _, _)
RECURSIVE try_colors_no_reset(_, _, _, _, _)
graph_coloring(graph, nc, colors_, node) ==
    IF node = graph.n THEN [ok |-> TRUE, colors |-> colors_]
    ELSE try_colors(graph, nc, colors_, node, 0)

\* try_colors without the "colors[node] = -1  # Backtrack" line.
try_colors_no_reset(graph, nc, colors_, node, color) ==
    IF color \notin range(nc) THEN [ok |-> FALSE, colors |-> colors_]
    ELSE IF is_safe(node, color, colors_, graph)
         THEN LET r == graph_coloring(graph, nc, [colors_ EXCEPT ![node] = color], node + 1)
              IN  IF r.ok THEN r
                  ELSE try_colors_no_reset(graph, nc, r.colors, node, color + 1)
         ELSE try_colors_no_reset(graph, nc, colors_, node, color + 1)

\* The loop body of graph_coloring: assign a safe color, recurse on node + 1,
\* and on failure write -1 back before trying the next color.
try_colors(graph, nc, colors_, node, color) ==
    IF color \notin range(nc) THEN [ok |-> FALSE, colors |-> colors_]
    ELSE IF is_safe(node, color, colors_, graph)
         THEN LET r == graph_coloring(graph, nc, [colors_ EXCEPT ![node] = color], node + 1)
              IN  IF r.ok THEN r
                  ELSE try_colors(graph, nc, [r.colors EXCEPT ![node] = Unassigned],
                                  node, color + 1)
         ELSE try_colors(graph, nc, colors_, node, color + 1)

\* ------------------------------------------------------------- edge search
\* is_safe_edge looking only at the edges that touch the source u.
is_safe_edge_source_only(edge, color, colors_, graph) ==
    LET u == source(graph, edge)
    IN  \A neighbor_edge \in DOMAIN graph.es :
            (source(graph, neighbor_edge) = u \/ target(graph, neighbor_edge) = u)
            => colors_[neighbor_edge] # color

\* is_safe_edge: no edge of graph.es that touches an endpoint of edge holds
\* color. The loop runs over every edge of the graph, edge itself included.
is_safe_edge(edge, color, colors_, graph) ==
    LET u == source(graph, edge)
        v == target(graph, edge)
    IN  \A neighbor_edge \in DOMAIN graph.es :
            (source(graph, neighbor_edge) = u \/ target(graph, neighbor_edge) = u
             \/ source(graph, neighbor_edge) = v \/ target(graph, neighbor_edge) = v)
            => colors_[neighbor_edge] # color

\* The inner loop of edge_coloring taking its first color without asking
\* is_safe_edge.
first_color_unchecked(graph, nc, colors_, edge, color) ==
    IF color \notin range(nc) THEN Unassigned ELSE color

\* The inner "for color in range(num_colors)" of edge_coloring: the first safe
\* color from color onwards, or -1 when the loop runs out (the for-else).
RECURSIVE first_safe_color(_, _, _, _, _)
first_safe_color(graph, nc, colors_, edge, color) ==
    IF color \notin range(nc) THEN Unassigned
    ELSE IF is_safe_edge(edge, color, colors_, graph) THEN color
    ELSE first_safe_color(graph, nc, colors_, edge, color + 1)

\* edge_coloring: one pass over edge_order (from position k on), each edge
\* taking its first safe color; returns False at the first edge that has none.
RECURSIVE edge_coloring_from(_, _, _, _, _)
edge_coloring_from(graph, nc, colors_, order, k) ==
    IF k > Len(order) THEN [ok |-> TRUE, colors |-> colors_]
    ELSE LET c == first_safe_color(graph, nc, colors_, order[k], 0)
         IN  IF c = Unassigned THEN [ok |-> FALSE, colors |-> colors_]
             ELSE edge_coloring_from(graph, nc, [colors_ EXCEPT ![order[k]] = c],
                                     order, k + 1)

edge_coloring(graph, nc, colors_, order) == edge_coloring_from(graph, nc, colors_, order, 1)

\* aristas.py graph_coloring: edge_order = [0, 1, ..., len(graph.es) - 1].
IndexOrder(graph) == [k \in 1..NumEdges(graph) |-> k - 1]

graph_coloring_edges(graph, nc, colors_) == edge_coloring(graph, nc, colors_, IndexOrder(graph))

\* min_colors_vizing: max(graph.degree()) + 1.
min_colors_vizing(graph) == Max({degree(graph, v) : v \in 0..graph.n-1}) + 1

\* update_graph / color_edges: the edges sorted by the sum of the degrees of
\* their endpoints, largest first; Python's sorted is stable, so equal sums
\* stay in index order.
edge_degrees(graph) ==
    LET deg == [v \in 0..graph.n-1 |-> degree(graph, v)]
    IN  [e \in DOMAIN graph.es |-> deg[source(graph, e)] + deg[target(graph, e)]]

RECURSIVE sorted_by_degree(_, _)
sorted_by_degree(key, S) ==
    IF S = {} THEN <<>>
    ELSE LET e == CHOOSE x \in S : \A y \in S :
                      key[x] > key[y] \/ (key[x] = key[y] /\ x <= y)
         IN  <<e>> \o sorted_by_degree(key, S \ {e})

DegreeOrder(graph) == sorted_by_degree(edge_degrees(graph), DOMAIN graph.es)

\* Every permutation of the edge indices, as a sequence.
Permutations_(k) ==
    {p \in [1..k -> 0..k-1] : \A a, b \in 1..k : p[a] = p[b] => a = b}

\* The orders handed to the real edge search: the two the source computes and,
\* on small graphs, every other permutation.
EdgeOrders(graph) ==
    {IndexOrder(graph), DegreeOrder(graph)}
    \cup (IF NumEdges(graph) <= MaxPermEdges THEN Permutations_(NumEdges(graph)) ELSE {})

\* The items a mode colours: vertices or edges.
NumItems(md, graph) == IF md = "vertex" THEN graph.n ELSE NumEdges(graph)

\* The call in the loop of measure_execution_time: graph_coloring, which in
\* aristas.py is the edge search in index order.
TimedSearch(md, graph, nc, colors_) ==
    IF md = "vertex" THEN graph_coloring(graph, nc, colors_, 0)
    ELSE graph_coloring_edges(graph, nc, colors_)

\* The real search of update_graph: graph_coloring in verices.py,
\* edge_coloring with the computed edge_order in aristas.py.
Search(md, graph, nc, colors_, order) ==
    IF md = "vertex" THEN graph_coloring(graph, nc, colors_, 0)
    ELSE edge_coloring(graph, nc, colors_, order)

\* ------------------------------------------------------------- update_graph
\* update_graph (aristas.py) / color_edges (conbinado.py):
\* num_colors = max(required_colors, len(palette)).
edge_budget(graph) == Max({min_colors_vizing(graph), PaletteLen})

\* The colour budgets tried: -1..MaxColors and, in edge mode, the value of
\* min_colors_vizing and the budget update_graph computes.
NumColorsChoices(md, graph) ==
    ((0 - 1)..MaxColors)
    \cup (IF md = "edge" THEN {min_colors_vizing(graph), edge_budget(graph)} ELSE {})

\* palette[color % len(palette)]: the position in the palette of the label
\* an edge is drawn with.
palette_index(color) == color % PaletteLen

EmptyGraph == [n |-> 0, es |-> <<>>]

\* The state after the module is loaded, before update_graph runs, with the
\* matrix one of ms.
InitWith(ms) ==
    /\ adj_matrix \in ms
    /\ pc = "idle"
    /\ mode = "none"
    /\ directed = TRUE
    /\ g = EmptyGraph
    /\ num_colors = 0
    /\ edge_order = <<>>
    /\ colors = <<>>
    /\ result = "none"
    /\ bench_colors = <<>>
    /\ bench_log = <<>>
    /\ entry_matrix = EntriesOf(adj_matrix)
    /\ error = "none"
    /\ frames = <<>>

Init == InitWith(Matrices)

\* update_graph(directed) up to the first trial of measure_execution_time,
\* in verices.py (md = "vertex") or aristas.py (md = "edge"), with any budget:
\* the graph is built, verices.py allocates its colors array (aristas.py
\* allocates it after the timing), and measure_execution_time allocates its
\* own array once, before its loop.
UpdateGraph(md, dir) ==
    /\ pc = "idle"
    /\ \E graph \in {BuildGraph(adj_matrix, dir)} :
           /\ g' = graph
           /\ num_colors' \in NumColorsChoices(md, graph)
           /\ colors' = IF md = "vertex" THEN AllUnassigned(graph.n) ELSE colors
           /\ bench_colors' = AllUnassigned(NumItems(md, graph))
    /\ mode' = md
    /\ directed' = dir
    /\ pc' = "bench"
    /\ UNCHANGED <<adj_matrix, edge_order, result, bench_log>>
    /\ UNCHANGED <<entry_matrix, error, frames>>

\* One iteration of the loop of measure_execution_time: graph_coloring on the
\* loop's colors array (in aristas.py, the edge search in index order).
BenchTrial ==
    /\ pc = "bench"
    /\ Len(bench_log) < Trials
    /\ \E r \in {TimedSearch(mode, g, num_colors, bench_colors)} :
           /\ bench_colors' = r.colors
           /\ bench_log' = Append(bench_log,
                  [before |-> bench_colors, ok |-> r.ok, after |-> r.colors])
    /\ UNCHANGED <<adj_matrix, pc, mode, directed, g, num_colors, edge_order,
                   colors, result>>
    /\ UNCHANGED <<entry_matrix, error, frames>>

\* measure_execution_time returns; aristas.py computes edge_order and
\* allocates colors. order stands for the order handed to edge_coloring, one
\* of orders.
BenchReturnWith(orders) ==
    /\ pc = "bench"
    /\ Len(bench_log) = Trials
    /\ IF mode = "edge"
       THEN /\ \E order \in orders : edge_order' = order
            /\ colors' = AllUnassigned(NumEdges(g))
       ELSE UNCHANGED <<edge_order, colors>>
    /\ pc' = "search"
    /\ UNCHANGED <<adj_matrix, mode, directed, g, num_colors, result,
                   bench_colors, bench_log>>
    /\ UNCHANGED <<entry_matrix, error, frames>>

BenchReturn == BenchReturnWith(EdgeOrders(g))

\* The real search run on the array the timing loop has used.
SearchArrayShared(own, bench) == bench

\* The array update_graph hands to the real search: its own colors, never
\* the array of measure_execution_time.
SearchArray(own, bench) == own

\* The real search of update_graph.
RealSearch ==
    /\ pc = "search"
    /\ \E r \in {Search(mode, g, num_colors, SearchArray(colors, bench_colors), edge_order)} :
           /\ colors' = r.colors
           /\ result' = r.ok
    /\ pc' = "done"
    /\ UNCHANGED <<adj_matrix, mode, directed, g, num_colors, edge_order,
                   bench_colors, bench_log>>
    /\ UNCHANGED <<entry_matrix, error, frames>>

Next ==
    \/ \E md \in {"vertex", "edge"}, dir \in BOOLEAN : UpdateGraph(md, dir)
    \/ BenchTrial
    \/ BenchReturn
    \/ RealSearch

Spec == Init /\ [][Next]_vars

\* ------------------------------------------------------------- step by step
\* update_graph of verices.py / aristas.py with its searches run one loop
\* iteration at a time. frames holds the active calls: in vertex mode one
\* record [node, color] per call of graph_coloring, color being the value of
\* its "for color in range(num_colors)" loop; in edge mode the one call of
\* edge_coloring, [k] being the position of its loop in edge_order.

\* The array the running search writes: the one of measure_execution_time
\* during the timing, update_graph's colors in the real search.
StepArray == IF pc = "bench" THEN bench_colors ELSE colors

\* The edge order of the running search: graph_coloring of aristas.py, which
\* the timing calls, uses the index order.
StepOrder == IF pc = "bench" THEN IndexOrder(g) ELSE edge_order

\* The array a trial starts on: allocated once before the loop, afterwards
\* what the previous trial left.
TrialStart ==
    IF bench_log = <<>> THEN AllUnassigned(NumItems(mode, g))
    ELSE bench_log[Len(bench_log)].after

\* A loop that never advances to its next color.
same_color(color) == color

\* The for loop over range(num_colors) moves on to its next color.
next_color(color) == color + 1

\* The search goes on with the array arr and the calls fr.
Continue(arr, fr) ==
    /\ frames' = fr
    /\ IF pc = "bench"
       THEN bench_colors' = arr /\ UNCHANGED colors
       ELSE colors' = arr /\ UNCHANGED bench_colors
    /\ UNCHANGED <<pc, result, bench_log>>

\* The outermost call returns ok: to the loop of measure_execution_time, or
\* to update_graph.
Return(ok) ==
    /\ frames' = <<>>
    /\ IF pc = "bench"
       THEN /\ bench_log' = Append(bench_log,
                   [before |-> TrialStart, ok |-> ok, after |-> bench_colors])
            /\ UNCHANGED <<pc, result>>
       ELSE /\ result' = ok
            /\ pc' = "done"
            /\ UNCHANGED bench_log
    /\ UNCHANGED <<colors, bench_colors>>

\* The search is called: graph_coloring(graph, num_colors, colors) with
\* node = 0 in a trial of the timing loop or in update_graph, edge_coloring
\* at the head of edge_order.
CallSearch ==
    /\ pc \in {"bench", "search"}
    /\ frames = <<>>
    /\ pc = "bench" => Len(bench_log) < Trials
    /\ frames' = IF mode = "vertex" THEN <<[node |-> 0, color |-> 0]>> ELSE <<[k |-> 1]>>
    /\ UNCHANGED <<adj_matrix, pc, mode, directed, g, num_colors, edge_order, colors,
                   result, bench_colors, bench_log, entry_matrix, error>>

\* One step of the innermost call of graph_coloring (vertex mode): the base
\* case returns True and so does every caller; a loop that has run out
\* returns False to its caller, which writes -1 back and moves to its next
\* color; a safe color is written and node + 1 is called; an unsafe color
\* is skipped.
VertexStep ==
    /\ mode = "vertex"
    /\ pc \in {"bench", "search"}
    /\ frames # <<>>
    /\ LET top == frames[Len(frames)]
           callers == SubSeq(frames, 1, Len(frames) - 1)
       IN  IF top.node = g.n THEN Return(TRUE)
           ELSE IF top.color \notin range(num_colors)
                THEN IF callers = <<>> THEN Return(FALSE)
                     ELSE LET caller == callers[Len(callers)]
                          IN  Continue([StepArray EXCEPT ![caller.node] = Unassigned],
                                       [callers EXCEPT ![Len(callers)].color =
                                                           next_color(caller.color)])
           ELSE IF is_safe(top.node, top.color, StepArray, g)
                THEN Continue([StepArray EXCEPT ![top.node] = top.color],
                              Append(frames, [node |-> top.node + 1, color |-> 0]))
           ELSE Continue(StepArray,
                         [frames EXCEPT ![Len(frames)].color = next_color(top.color)])
    /\ UNCHANGED <<adj_matrix, mode, directed, g, num_colors, edge_order,
                   entry_matrix, error>>

\* One iteration of "for edge in edge_order" of edge_coloring: the edge takes
\* its first safe color, or the call returns False; after the last edge it
\* returns True.
EdgeStep ==
    /\ mode = "edge"
    /\ pc \in {"bench", "search"}
    /\ frames # <<>>
    /\ LET k == frames[1].k
       IN  IF k > Len(StepOrder) THEN Return(TRUE)
           ELSE \E c \in {first_safe_color(g, num_colors, StepArray, StepOrder[k], 0)} :
                    IF c = Unassigned THEN Return(FALSE)
                    ELSE Continue([StepArray EXCEPT ![StepOrder[k]] = c], <<[k |-> k + 1]>>)
    /\ UNCHANGED <<adj_matrix, mode, directed, g, num_colors, edge_order,
                   entry_matrix, error>>

\* The matrices the step-by-step searches start from: every 0/1 matrix up to
\* MaxN x MaxN, K4 and the matrices beyond the exhaustive sizes.
StepMatrices == UNION {AllMatrices(n) : n \in 1..MaxN} \cup {K4} \cup Scenarios

StepInit == InitWith(StepMatrices)

\* measure_execution_time returns, and edge_order is the one update_graph
\* computes: the degree-sum order.
StepBenchReturn == BenchReturnWith({DegreeOrder(g)})

\* The steps of the searches and of the loop that times them.
SearchRun == CallSearch \/ VertexStep \/ EdgeStep

StepNext ==
    \/ \E md \in {"vertex", "edge"}, dir \in BOOLEAN : UpdateGraph(md, dir)
    \/ CallSearch
    \/ VertexStep
    \/ EdgeStep
    \/ StepBenchReturn

\* The searches and the timing loop run on the calling thread with nothing
\* to suspend them: a call or a loop iteration that can be taken is taken.
StepSpec == StepInit /\ [][StepNext]_vars /\ WF_vars(SearchRun)

\* ------------------------------------------------------------- matrix editor
\* main.py: the Entry grid, update_matrix and the update_graph it calls (the
\* vertex search with num_colors = 4, no timing loop). Every handler runs to
\* its end before the next event, so pc stays "idle".

\* The texts typed into a cell: two valid values, an integer that is neither
\* 0 nor 1, and a text int() cannot convert.
EntryTexts == {"0", "1", "2", "x"}

\* int(text): the text converts, or int raises ValueError.
int_ok(text) == text \in {"0", "1", "2"}

int(text) == CASE text = "0" -> 0 [] text = "1" -> 1 [] text = "2" -> 2

\* The cell update_matrix takes at position k of its two nested loops.
CellRow(m, k) == k \div Dim(m)
CellCol(m, k) == k % Dim(m)

\* The cell passes "value = int(...)" and "if value not in (0, 1)".
CellAccepted(text) == int_ok(text) /\ int(text) \in {0, 1}

\* The loops of update_matrix from position k on: each cell is converted,
\* checked and written into adj_matrix at once; the first cell that raises
\* ValueError ends the loops. Returns the matrix and the exception raised.
RECURSIVE copy_entries(_, _, _)
copy_entries(m, entries, k) ==
    LET i == CellRow(m, k)
        j == CellCol(m, k)
    IN  IF k >= Dim(m) * Dim(m) THEN [matrix |-> m, raised |-> "none"]
        ELSE IF ~int_ok(entries[i][j])
             THEN [matrix |-> m, raised |-> "invalid literal for int()"]
        ELSE IF int(entries[i][j]) \notin {0, 1}
             THEN [matrix |-> m, raised |-> "Los valores deben ser 0 o 1."]
        ELSE copy_entries([m EXCEPT ![i][j] = int(entries[i][j])], entries, k + 1)

\* update_graph of main.py: the graph of the matrix and the vertex search on
\* a fresh colors array; showerror when the search returns False.
main_update_graph(m, dir) ==
    LET graph == BuildGraph(m, dir)
        r == graph_coloring(graph, MainNumColors, AllUnassigned(graph.n), 0)
    IN  [g |-> graph, colors |-> r.colors, result |-> r.ok,
         error |-> IF r.ok THEN "none" ELSE "No es posible colorear el grafo con 4 colores."]

\* The state after main.py has been loaded: the Entry grid shows the matrix
\* and update_graph() has run once.
MatrixInit ==
    /\ adj_matrix \in UNION {AllMatrices(n) : n \in 1..MaxEditN}
    /\ entry_matrix = EntriesOf(adj_matrix)
    /\ \E u \in {main_update_graph(adj_matrix, TRUE)} :
           /\ g = u.g
           /\ colors = u.colors
           /\ result = u.result
           /\ error = u.error
    /\ pc = "idle"
    /\ mode = "vertex"
    /\ directed = TRUE
    /\ num_colors = MainNumColors
    /\ edge_order = <<>>
    /\ bench_colors = <<>>
    /\ bench_log = <<>>
    /\ frames = <<>>

\* The user types text into the Entry widget of cell (i, j).
EditEntry(i, j, text) ==
    /\ pc = "idle"
    /\ i \in DOMAIN entry_matrix
    /\ j \in DOMAIN entry_matrix
    /\ entry_matrix' = [entry_matrix EXCEPT ![i][j] = text]
    /\ UNCHANGED <<adj_matrix, pc, mode, directed, g, num_colors, edge_order, colors,
                   result, bench_colors, bench_log, error, frames>>

\* The buttons "Mostrar Grafo Dirigido" / "No Dirigido": update_graph(directed).
ShowGraph(dir) ==
    /\ pc = "idle"
    /\ \E u \in {main_update_graph(adj_matrix, dir)} :
           /\ g' = u.g
           /\ colors' = u.colors
           /\ result' = u.result
           /\ error' = u.error
    /\ directed' = dir
    /\ UNCHANGED <<adj_matrix, pc, mode, num_colors, edge_order, bench_colors,
                   bench_log, entry_matrix, frames>>

\* update_matrix: the cells are copied until one raises ValueError; without
\* an exception update_graph() runs, with one the except clause shows it.
UpdateMatrix ==
    /\ pc = "idle"
    /\ \E c \in {copy_entries(adj_matrix, entry_matrix, 0)} :
           /\ adj_matrix' = c.matrix
           /\ IF c.raised = "none"
              THEN \E u \in {main_update_graph(c.matrix, TRUE)} :
                       /\ g' = u.g
                       /\ colors' = u.colors
                       /\ result' = u.result
                       /\ error' = u.error
                       /\ directed' = TRUE
              ELSE /\ error' = c.raised
                   /\ UNCHANGED <<g, colors, result, directed>>
    /\ UNCHANGED <<pc, mode, num_colors, edge_order, bench_colors, bench_log,
                   entry_matrix, frames>>

MatrixNext ==
    \/ \E i, j \in 0..MaxEditN-1, text \in EntryTexts : EditEntry(i, j, text)
    \/ \E dir \in BOOLEAN : ShowGraph(dir)
    \/ UpdateMatrix

MatrixSpec == MatrixInit /\ [][MatrixNext]_vars

\* ------------------------------------------------------------- properties
Done == pc = "done"

Vertices == DOMAIN adj_matrix

\* Two distinct vertices joined by a 1-cell of the matrix, in either direction.
Adjacent(i, j) == i # j /\ (adj_matrix[i][j] = 1 \/ adj_matrix[j][i] = 1)

Ends(e) == {g.es[e][1], g.es[e][2]}

\* Two distinct edges of g with a common endpoint.
Incident(e1, e2) == e1 # e2 /\ Ends(e1) \cap Ends(e2) # {}

\* C1: vertex mode, adjacency safety: after a successful search started at
\* node 0 on an all -1 array, the two ends of every edge between two distinct
\* vertices (an arc in either direction) hold different colours.
C1_AdjacencySafety ==
    (Done /\ mode = "vertex" /\ result = TRUE)
        => \A i, j \in Vertices : Adjacent(i, j) => colors[i] # colors[j]

\* C1's case: a successful search on a directed graph in which a vertex is
\* joined to a lower-numbered vertex only by an arc that enters it.
C1_Witness ==
    /\ Done /\ mode = "vertex" /\ result = TRUE /\ directed
    /\ \E i, j \in Vertices : i < j /\ adj_matrix[i][j] = 1 /\ adj_matrix[j][i] = 0

\* C2: edge mode, incidence safety: after a successful edge_coloring started
\* on an all -1 array with a permutation as edge_order, every two distinct
\* edges that share an endpoint (opposite arcs included) hold different colours.
C2_IncidenceSafety ==
    (Done /\ mode = "edge" /\ result = TRUE)
        => \A e1, e2 \in DOMAIN g.es : Incident(e1, e2) => colors[e1] # colors[e2]

\* C2's case: a successful edge search on a directed graph holding two
\* opposite arcs and a third edge that meets them only at their target end.
C2_Witness ==
    /\ Done /\ mode = "edge" /\ result = TRUE /\ directed
    /\ \E e1, e2 \in DOMAIN g.es :
          /\ g.es[e1][1] # g.es[e1][2]
          /\ g.es[e2] = <<g.es[e1][2], g.es[e1][1]>>
    /\ edge_order # IndexOrder(g)

\* An assignment of the ids 0..num_colors-1 to the vertices under which
\* adjacent distinct vertices differ.
ProperVertexColoringExists ==
    \E c \in [Vertices -> 0..num_colors-1] :
        \A i, j \in Vertices : Adjacent(i, j) => c[i] # c[j]

\* C3: the vertex search is complete: started on an all -1 array it returns
\* False exactly when no proper colouring with ids 0..num_colors-1 exists
\* (num_colors <= 0 included); K4 fails with 3 colours and succeeds with 4,
\* the 5-cycle fails with 2 and succeeds with 3.
C3_VertexSearchComplete ==
    (Done /\ mode = "vertex") =>
        /\ (result = FALSE) <=> ~ProperVertexColoringExists
        /\ (adj_matrix = K4 /\ num_colors = 3) => result = FALSE
        /\ (adj_matrix = K4 /\ num_colors = 4) => result = TRUE
        /\ (adj_matrix = Cycle5 /\ num_colors = 2) => result = FALSE
        /\ (adj_matrix = Cycle5 /\ num_colors = 3) => result = TRUE

\* C3's case: the search has exhausted every colouring of K4 with 3 colours.
C3_Witness ==
    Done /\ mode = "vertex" /\ adj_matrix = K4 /\ num_colors = 3 /\ result = FALSE

\* The largest number of 1-cells in a row of a symmetric zero-diagonal matrix.
MaxDegree == Max({Cardinality({j \in Vertices : adj_matrix[i][j] = 1}) : i \in Vertices})

\* C4: edge mode, completeness at the bound: on a simple undirected graph,
\* edge_coloring run on an all -1 array with num_colors = max_degree + 1 and
\* the degree-sum edge order never returns False.
C4_CompleteAtVizingBound ==
    (/\ Done /\ mode = "edge" /\ ~directed /\ IsSimple(adj_matrix)
     /\ num_colors = MaxDegree + 1
     /\ edge_order = DegreeOrder(g))
        => result = TRUE

\* C5: edge mode, order independence: for every graph and num_colors,
\* edge_coloring started on an all -1 array returns True under the order it
\* is given exactly when it returns True under the index order (the order of
\* the first timing trial, which starts on an all -1 array).
C5_OrderIndependent ==
    (Done /\ mode = "edge") => (result = bench_log[1].ok)

\* C6: backtracking guarantee on failure, both modes: when a search started
\* on an all -1 array returns False, every entry of colors is -1 again.
C6_FailureLeavesAllUnassigned ==
    (Done /\ result = FALSE) => \A i \in DOMAIN colors : colors[i] = Unassigned

\* C7: timing trials do not leak state: every trial of measure_execution_time
\* starts on an all -1 array, and returns the outcome and the assignment of
\* the first trial.
C7_TrialsDoNotLeak ==
    \A k \in 1..Len(bench_log) :
        /\ \A i \in DOMAIN bench_log[k].before : bench_log[k].before[i] = Unassigned
        /\ bench_log[k].ok = bench_log[1].ok
        /\ bench_log[k].after = bench_log[1].after

\* C8: the timing has no effect on the real result: from the start of the
\* timing on, g is the graph of the matrix, and the real search ends with the
\* outcome and the assignment of the same search on a fresh all -1 array.
C8_BenchmarkHasNoEffect ==
    /\ pc \in {"bench", "search", "done"} => g = BuildGraph(adj_matrix, directed)
    /\ Done =>
          [ok |-> result, colors |-> colors]
              = Search(mode, BuildGraph(adj_matrix, directed), num_colors,
                       [i \in 0..NumItems(mode, g)-1 |-> Unassigned], edge_order)

\* C8's case: the timing loop has left a coloured array behind on which the
\* same search fails, and the real search has succeeded.
C8_Witness ==
    /\ Done /\ result = TRUE /\ Len(bench_log) = Trials
    /\ bench_log[1].ok /\ ~bench_log[Trials].ok
    /\ \E i \in DOMAIN bench_colors : bench_colors[i] # Unassigned

\* C9: re-validation: after a successful search, the search's own safety
\* check, called again for every item with its assigned colour against the
\* returned array, returns True.
C9_RevalidationPasses ==
    (Done /\ result = TRUE) =>
        IF mode = "vertex"
        THEN \A v \in 0..g.n-1 : is_safe(v, colors[v], colors, g)
        ELSE \A e \in DOMAIN g.es : is_safe_edge(e, colors[e], colors, g)

\* C10: colour budget and total assignment: after a successful search
\* started on an all -1 array, every item holds an integer c with
\* 0 <= c < num_colors; none is left at -1.
C10_BudgetRespected ==
    (Done /\ result = TRUE) =>
        /\ DOMAIN colors = 0..NumItems(mode, g)-1
        /\ \A i \in DOMAIN colors : colors[i] \in Int /\ 0 <= colors[i] /\ colors[i] < num_colors

\* C10's case: a successful edge search, in a non-index order, that had to
\* use every colour of its budget.
C10_Witness ==
    /\ Done /\ mode = "edge" /\ result = TRUE
    /\ num_colors >= 3
    /\ edge_order # IndexOrder(g)
    /\ \A c \in 0..num_colors-1 : \E e \in DOMAIN colors : colors[e] = c

\* graph.degree() read off the matrix: in a directed graph the 1-cells of
\* row v and of column v (a diagonal 1 is in both); in an undirected graph
\* the other vertices joined to v, and 2 for a diagonal 1.
MatrixDegree(v) ==
    IF directed
    THEN Cardinality({j \in Vertices : adj_matrix[v][j] = 1})
         + Cardinality({j \in Vertices : adj_matrix[j][v] = 1})
    ELSE Cardinality({j \in Vertices : Adjacent(v, j)}) + 2 * adj_matrix[v][v]

\* The edge search runs with the budget update_graph / color_edges computes.
HandlerBudget == mode = "edge" /\ pc # "idle" /\ num_colors = edge_budget(g)

\* C11: edge-mode colour budget: the number of colours update_graph /
\* color_edges hands to the edge search is max(max_degree + 1, palette
\* length), and it never exceeds the number of labels of the palette, so
\* that every colour id the search assigns is a palette index as it stands.
C11_BudgetWithinPalette ==
    HandlerBudget =>
        /\ num_colors = Max({Max({MatrixDegree(v) : v \in Vertices}) + 1, PaletteLen})
        /\ num_colors <= PaletteLen
        /\ (Done /\ result = TRUE) =>
               \A e \in DOMAIN colors : palette_index(colors[e]) = colors[e]

\* The matrix m with its diagonal set to 0.
ZeroDiagonal(m) == [i \in DOMAIN m |-> [j \in DOMAIN m |-> IF i = j THEN 0 ELSE m[i][j]]]

\* C14: self-loops are ignored in vertex mode: the vertex search started on
\* an all -1 array returns, for the graph of the matrix, the outcome and the
\* colors array it returns for the graph of the matrix with its diagonal set
\* to 0.
C14_SelfLoopsIgnored ==
    (Done /\ mode = "vertex") =>
        [ok |-> result, colors |-> colors]
            = graph_coloring(BuildGraph(ZeroDiagonal(adj_matrix), directed), num_colors,
                             AllUnassigned(Dim(adj_matrix)), 0)

\* C14's case: a successful vertex search on a graph in which a vertex with
\* a self-loop also has another neighbour.
C14_Witness ==
    /\ Done /\ mode = "vertex" /\ result = TRUE
    /\ \E i, j \in Vertices : adj_matrix[i][i] = 1 /\ Adjacent(i, j)

\* The Entry grid holds a cell update_matrix rejects.
InputRejected ==
    \E i, j \in DOMAIN entry_matrix : ~CellAccepted(entry_matrix[i][j])

\* C15: rejected matrix edits leave the matrix unchanged: an update_matrix
\* call whose input holds an entry that is not 0 or 1, or not an integer,
\* ends in the error outcome, does not run the colouring search, and leaves
\* every cell of adj_matrix at its value before the call.
C15_RejectedEditLeavesMatrix ==
    [][(UpdateMatrix /\ InputRejected) =>
           /\ error' \in {"invalid literal for int()", "Los valores deben ser 0 o 1."}
           /\ UNCHANGED <<g, colors, result>>
           /\ \A i, j \in DOMAIN adj_matrix : adj_matrix'[i][j] = adj_matrix[i][j]]_vars

\* The step-by-step searches end as the searches taken in one step: every
\* trial and the real search return what TimedSearch and Search return.
StepAgreesWithSearch ==
    /\ \A t \in 1..Len(bench_log) :
           TimedSearch(mode, g, num_colors, bench_log[t].before)
               = [ok |-> bench_log[t].ok, colors |-> bench_log[t].after]
    /\ Done =>
           Search(mode, g, num_colors, AllUnassigned(NumItems(mode, g)), edge_order)
               = [ok |-> result, colors |-> colors]

\* measure_execution_time has run its Trials trials, each of which has
\* returned.
TimingReturned == pc = "bench" /\ Len(bench_log) = Trials /\ frames = <<>>

\* The real search has returned True or False.
SearchReturned == Done /\ frames = <<>> /\ result \in BOOLEAN

\* C12: termination, for every graph and every budget: the timing loop,
\* once entered, reaches its end with every one of its searches (vertex
\* backtracking or edge_coloring) returned, and the real search, called on
\* its all -1 array, returns True or False.
C12_Terminates ==
    /\ (pc = "bench") ~> TimingReturned
    /\ (pc = "search") ~> SearchReturned

\* C12's case: a vertex search that exhausts every colouring of K4 with 3
\* colours has returned False, after the timing loop has returned.
C12_Witness ==
    /\ Done /\ mode = "vertex" /\ adj_matrix = K4 /\ num_colors = 3 /\ result = FALSE
    /\ SearchReturned
    /\ \A t \in 1..Trials : bench_log[t].ok = FALSE

\* The search under way, or just returned, was started on an all -1 array:
\* the first trial of the timing loop and the real search of update_graph.
StartedOnAllUnassigned ==
    \/ pc = "bench" /\ bench_log = <<>>
    \/ pc \in {"search", "done"}

\* Two distinct items of the running search that may not share a colour:
\* adjacent vertices, edges with a common endpoint.
InConflict(a, b) == IF mode = "vertex" THEN Adjacent(a, b) ELSE Incident(a, b)

\* C13: partial-assignment invariant: at every step of a search started on
\* an all -1 array, in vertex and in edge mode, every two distinct items in
\* conflict that both hold a colour other than -1 hold different colours.
C13_PartialAssignmentProper ==
    StartedOnAllUnassigned =>
        \A a, b \in DOMAIN StepArray :
            (InConflict(a, b) /\ StepArray[a] # Unassigned /\ StepArray[b] # Unassigned)
                => StepArray[a] # StepArray[b]

\* C13's case, vertex mode: the real search is under way, a caller has
\* written -1 back and moved to a later color while two adjacent vertices
\* before it hold colours.
C13_Witness ==
    /\ pc = "search" /\ mode = "vertex"
    /\ Len(frames) >= 3
    /\ frames[Len(frames)].color >= 1
    /\ colors[frames[Len(frames)].node] = Unassigned
    /\ \E a, b \in DOMAIN colors :
           Adjacent(a, b) /\ colors[a] # Unassigned /\ colors[b] # Unassigned

====
